---- MODULE Spec2Model ----
(***************************************************************************)
(* Model of rcc's diagnostics: the TLS endpoint probe (tlscheck.go) and    *)
(* the diagnostics report and its human rendering (diagnostics.go).        *)
(*                                                                         *)
(* Strings produced by fmt.Sprintf are modelled as sequences of tokens:    *)
(* the literal pieces of the format and the formatted arguments, in order. *)
(* Concatenation of strings is concatenation of token sequences.           *)
(***************************************************************************)
EXTENDS Integers, Sequences, FiniteSets, TLC

VARIABLES
    roots,          \* tlsCheckHost: the trust table `roots map[string]bool`
    rootsAtEntry,   \* the trust table as it was when the latest tlsCheckHost call began
    call,           \* inputs of the latest tlsCheckHost call (host, HEAD outcome, Verify outcome)
    result,         \* the []*DiagnosticCheck returned by the latest tlsCheckHost call
    probes,         \* history: what each tlsCheckHost call so far observed
    debug,          \* common.DebugFlag()
    env,            \* what the collaborators answered during the latest RunDiagnostics
    report,         \* the *DiagnosticStatus returned by the latest RunDiagnostics
    status,         \* humaneDiagnostics: its argument `details *DiagnosticStatus`
    keys,           \* humaneDiagnostics: the local `keys` after sort.Strings
    sink            \* humaneDiagnostics: the lines written to the sink

vars == <<roots, rootsAtEntry, call, result, probes, debug, env, report, status, keys, sink>>

tlsVars == <<roots, rootsAtEntry, call, result, probes, debug>>
diagVars == <<env, report>>
humaneVars == <<status, keys, sink>>

----------------------------------------------------------------------------
(* Bounds of the model *)

MaxProbes == 2      \* tlsCheckHost calls sharing one trust table
MaxChain == 2       \* certificates in a peer chain
MaxChecks == 2      \* checks in a report handed to humaneDiagnostics

----------------------------------------------------------------------------
(* diagnostics.go constants *)

statusOk == "ok"
statusWarning == "warning"
statusFail == "fail"
statusFatal == "fatal"

canaryHost == "https://downloads.robocorp.com"
canaryUrl == "/canary.txt"
supportLongPathUrl == "https://robocorp.com/docs/troubleshooting/windows-long-path"
supportNetworkUrl == "https://robocorp.com/docs/troubleshooting/firewall-and-proxies"
supportGeneralUrl == "https://robocorp.com/docs/troubleshooting"

checkedHosts ==
    << "api.eu1.robocloud.eu", "downloads.robocorp.com", "pypi.org",
       "conda.anaconda.org", "github.com", "files.pythonhosted.org" >>

----------------------------------------------------------------------------
(* tlscheck.go *)

\* crypto/tls protocol version identifiers (uint16)
VersionSSL30 == 768
VersionTLS10 == 769
VersionTLS11 == 770
VersionTLS12 == 771
VersionTLS13 == 772

\* the package-level map filled by init()
tlsVersions ==
    (VersionSSL30 :> "SSLv3") @@ (VersionTLS10 :> "TLS 1.0") @@
    (VersionTLS11 :> "TLS 1.1") @@ (VersionTLS12 :> "TLS 1.2") @@
    (VersionTLS13 :> "TLS 1.3")

\* common.Category* values used by the TLS checks
CategoryNetworkLink == "network-link"
CategoryNetworkTLSVersion == "network-tls-version"
CategoryNetworkTLSVerify == "network-tls-verify"
CategoryNetworkTLSChain == "network-tls-chain"

\* settings.Global.DocsLink("troubleshooting/firewall-and-proxies")
DocsLink == "docs:troubleshooting/firewall-and-proxies"

nil == "nil"

\* fmt verbs
Quoted(s) == << "\"", s, "\"" >>

HexDigit(n) == << "0", "1", "2", "3", "4", "5", "6", "7", "8", "9",
                  "a", "b", "c", "d", "e", "f" >>[(n % 16) + 1]
\* %d
RECURSIVE Decimal(_)
Decimal(n) == IF n < 10 THEN << HexDigit(n) >> ELSE Append(Decimal(n \div 10), HexDigit(n % 10))
\* %03x : lower-case hex, zero padded to at least three digits
RECURSIVE HexDigits(_)
HexDigits(n) == IF n < 16 THEN << HexDigit(n) >> ELSE Append(HexDigits(n \div 16), HexDigit(n))
Hex03(n) ==
    LET d == HexDigits(n)
    IN  IF Len(d) >= 3 THEN d ELSE [i \in 1..(3 - Len(d)) |-> "0"] \o d

\* strings.Join(parts, sep) on token sequences
RECURSIVE Join(_, _)
Join(parts, sep) ==
    IF Len(parts) = 0 THEN << >>
    ELSE IF Len(parts) = 1 THEN parts[1]
    ELSE parts[1] \o << sep >> \o Join(Tail(parts), sep)

\* certificateChain: one rendered form per certificate, joined with "; "
\* (the signature prefix, DNS names and validity window are fields of the
\* certificate this model does not carry; index, subject and issuer are kept)
certificateChain(certificates) ==
    LET form(at) ==
            << "#" >> \o Decimal(at - 1) \o << ": " >> \o Quoted(certificates[at].Subject)
            \o << " issued by " >> \o Quoted(certificates[at].Issuer)
        parts == [at \in 1..Len(certificates) |-> form(at)]
    IN  Join(parts, "; ")

Check(category, stat, message) ==
    [Type |-> "network", Category |-> category, Status |-> stat,
     Message |-> message, Link |-> DocsLink]

\* url := fmt.Sprintf("https://%s/", host)
Url(host) == << "https://", host, "/" >>

\* variant: the transport error reported with the status the DNS check uses
LinkCheck_fail(host, err) ==
    Check(CategoryNetworkLink, statusFail, Url(host) \o << " -> ", err >>)

\* the check appended when tlsCheckHeadOnly returns an error
LinkCheck(host, err) ==
    Check(CategoryNetworkLink, statusWarning, Url(host) \o << " -> ", err >>)

\* variant: the comparison written with <= instead of <
TlsStatus_inclusive(version) ==
    IF version <= VersionTLS12 THEN statusWarning ELSE statusOk

\* the TLS version verdict of a version the table knows
TlsStatus(version) ==
    IF version < VersionTLS12 THEN statusWarning ELSE statusOk

\* the check appended for the negotiated version
VersionCheck(host, version) ==
    IF version \notin DOMAIN tlsVersions
    THEN Check(CategoryNetworkTLSVersion, statusWarning,
               << "unknown TLS version: " >> \o Quoted(host) \o << " -> " >> \o Hex03(version))
    ELSE Check(CategoryNetworkTLSVersion, TlsStatus(version),
               << "TLS version: " >> \o Quoted(host) \o << " -> ", tlsVersions[version] >>)

NoCertificatesCheck(server) ==
    Check(CategoryNetworkTLSVerify, statusWarning, << "no certificates for ", server >>)

\* variant: the loop over certificates[1:] does not advance `last`
LastCertificate_first(certificates) == certificates[1]

\* last := certificates[0]; for _, certificate := range certificates[1:] { last = certificate }
RECURSIVE LastOf(_, _)
LastOf(last, rest) ==
    IF Len(rest) = 0 THEN last ELSE LastOf(Head(rest), Tail(rest))
LastCertificate(certificates) == LastOf(certificates[1], Tail(certificates))

\* roots[last.Issuer.String()] = err == nil
RecordTrust(table, issuer, err) ==
    [k \in DOMAIN table \cup {issuer} |-> IF k = issuer THEN err = nil ELSE table[k]]

\* variant: a failed verification reported as a failure instead of a warning
VerifyFailedCheck_fail(server, err, last) ==
    Check(CategoryNetworkTLSVerify, statusFail,
          << "TLS verification of " >> \o Quoted(server) \o << " failed, reason: ", err,
             " [last issuer: " >> \o Quoted(last.Issuer) \o << "]" >>)

VerifyFailedCheck(server, err, last) ==
    Check(CategoryNetworkTLSVerify, statusWarning,
          << "TLS verification of " >> \o Quoted(server) \o << " failed, reason: ", err,
             " [last issuer: " >> \o Quoted(last.Issuer) \o << "]" >>)

ChainCheck(host, certificates) ==
    Check(CategoryNetworkTLSChain, statusWarning,
          Quoted(host) \o << " certificate chain is {" >> \o certificateChain(certificates)
          \o << "}." >>)

VerifyPassedCheck(server, last) ==
    Check(CategoryNetworkTLSVerify, statusOk,
          << "TLS verification of " >> \o Quoted(server)
          \o << " passed with certificate issued by " >> \o Quoted(last.Issuer))

\* variant: the chain check appended without asking common.DebugFlag()
VerifyChecks_alwaysChain(host, server, certificates, err, debugFlag) ==
    LET last == LastCertificate(certificates)
    IN  IF err # nil
        THEN << VerifyFailedCheck(server, err, last), ChainCheck(host, certificates) >>
        ELSE << VerifyPassedCheck(server, last) >>

\* the checks appended after certificates[0].Verify(toVerify) returned err
VerifyChecks(host, server, certificates, err, debugFlag) ==
    LET last == LastCertificate(certificates)
    IN  IF err # nil
        THEN << VerifyFailedCheck(server, err, last) >>
             \o (IF debugFlag THEN << ChainCheck(host, certificates) >> ELSE << >>)
        ELSE << VerifyPassedCheck(server, last) >>

\* variant: the unknown-version branch returns like the error branch above it
TlsCheckHostResult_stopsOnUnknown(c, debugFlag) ==
    IF c.err # nil
    THEN << LinkCheck(c.host, c.err) >>
    ELSE LET server == c.state.ServerName
             certificates == c.state.PeerCertificates
             first == << VersionCheck(c.host, c.state.Version) >>
         IN  IF c.state.Version \notin DOMAIN tlsVersions
             THEN first
             ELSE IF Len(certificates) = 0
             THEN first \o << NoCertificatesCheck(server) >>
             ELSE first \o VerifyChecks(c.host, server, certificates, c.verifyErr, debugFlag)

\* The value tlsCheckHost returns.  c.err / c.state are what tlsCheckHeadOnly
\* returned, c.verifyErr what certificates[0].Verify returned.
TlsCheckHostResult(c, debugFlag) ==
    IF c.err # nil
    THEN << LinkCheck(c.host, c.err) >>
    ELSE LET server == c.state.ServerName
             certificates == c.state.PeerCertificates
             first == << VersionCheck(c.host, c.state.Version) >>
         IN  IF Len(certificates) = 0
             THEN first \o << NoCertificatesCheck(server) >>
             ELSE first \o VerifyChecks(c.host, server, certificates, c.verifyErr, debugFlag)

\* variant: the outcome recorded before the empty-chain return, under the server name
TlsCheckHostRoots_recordsEmpty(c, table) ==
    IF c.err # nil THEN table
    ELSE IF Len(c.state.PeerCertificates) = 0
    THEN RecordTrust(table, c.state.ServerName, "no certificates")
    ELSE RecordTrust(table, LastCertificate(c.state.PeerCertificates).Issuer, c.verifyErr)

\* The trust table tlsCheckHost leaves behind.
TlsCheckHostRoots(c, table) ==
    IF c.err # nil THEN table
    ELSE IF Len(c.state.PeerCertificates) = 0 THEN table
    ELSE RecordTrust(table, LastCertificate(c.state.PeerCertificates).Issuer, c.verifyErr)

(* Inputs of a probe *)

Hosts == { "good.example", "old.example" }

\* the five known versions, one unknown above the table and one unknown below it
Versions == DOMAIN tlsVersions \cup { 773, 2 }

Issuers == { "CA One", "CA Two" }
Certificates ==
    { [Subject |-> "leaf", Issuer |-> "CA One"],
      [Subject |-> "CA One", Issuer |-> "CA Two"] }

Chains == UNION { [1..n -> Certificates] : n \in 0..MaxChain }

TransportErrors == { "dial tcp: i/o timeout" }
VerifyErrors == { "x509: certificate signed by unknown authority" }

NoState == [Version |-> 0, ServerName |-> "", PeerCertificates |-> << >>]

\* what certificates[0].Verify can answer; it is only reached with a non-empty chain
VerifyAnswers(chain) == IF Len(chain) = 0 THEN {nil} ELSE {nil} \cup VerifyErrors

\* what tlsCheckHeadOnly and Verify can answer for a host
Calls ==
    { [host |-> h, err |-> e, state |-> NoState, verifyErr |-> nil] :
        h \in Hosts, e \in TransportErrors }
    \cup
    UNION { { [host |-> h, err |-> nil,
               state |-> [Version |-> v, ServerName |-> h, PeerCertificates |-> ch],
               verifyErr |-> ve] :
                h \in Hosts, v \in Versions, ve \in VerifyAnswers(ch) } : ch \in Chains }

NoCall == [host |-> "", err |-> nil, state |-> NoState, verifyErr |-> nil]

\* History entry of a probe: the issuer of the last element of the chain it
\* verified and the outcome, or NotSeen when it verified no chain.
NotSeen == [seen |-> FALSE, issuer |-> "", verified |-> FALSE]
Observed(c) ==
    IF c.err = nil /\ Len(c.state.PeerCertificates) > 0
    THEN [seen |-> TRUE,
          issuer |-> c.state.PeerCertificates[Len(c.state.PeerCertificates)].Issuer,
          verified |-> (c.verifyErr = nil)]
    ELSE NotSeen

EmptyTable == [k \in {} |-> TRUE]

tlsCheckHost(c) ==
    /\ call' = c
    /\ rootsAtEntry' = roots
    /\ result' = TlsCheckHostResult(c, debug)
    /\ roots' = TlsCheckHostRoots(c, roots)
    /\ probes' = Append(probes, Observed(c))
    /\ UNCHANGED debug

Probe ==
    /\ Len(probes) < MaxProbes
    /\ \E c \in Calls : tlsCheckHost(c)
    /\ UNCHANGED <<diagVars, humaneVars>>

InitTLS ==
    /\ roots = EmptyTable
    /\ rootsAtEntry = EmptyTable
    /\ call = NoCall
    /\ result = << >>
    /\ probes = << >>
    /\ debug \in BOOLEAN

----------------------------------------------------------------------------
(* diagnostics.go *)

DiagnosticCheck(type, stat, message, link) ==
    [Type |-> type, Status |-> stat, Message |-> message, Link |-> link]

\* conda.HasLongPathSupport(), as the collaborator answered
HasLongPathSupport(e) == e.longPath

\* conda.RobocorpHome() and conda.ValidLocation of it, as the collaborators answered
RobocorpHome(e) == e.home
ValidLocation(e) == e.homeValid

\* net.LookupHost(site), as the resolver answered
LookupHost(site, e) ==
    IF site \in e.dnsFailed
    THEN [found |-> << >>, err |-> "no such host"]
    ELSE [found |-> << "192.0.2.1" >>, err |-> nil]

longPathSupportCheck(e) ==
    IF HasLongPathSupport(e)
    THEN DiagnosticCheck("OS", statusOk, << "Supports long enough paths." >>, supportLongPathUrl)
    ELSE DiagnosticCheck("OS", statusFail, << "Does not support long path names!" >>,
                         supportLongPathUrl)

robocorpHomeCheck(e) ==
    IF ~ValidLocation(e)
    THEN DiagnosticCheck("RPA", statusFatal,
                         << "ROBOCORP_HOME (", RobocorpHome(e),
                            ") contains characters that makes RPA fail." >>,
                         supportGeneralUrl)
    ELSE DiagnosticCheck("RPA", statusOk,
                         << "ROBOCORP_HOME (", RobocorpHome(e), ") is good enough." >>,
                         supportGeneralUrl)

dnsLookupCheck(site, e) ==
    LET answer == LookupHost(site, e)
    IN  IF answer.err # nil
        THEN DiagnosticCheck("network", statusFail,
                             << "DNS lookup ", site, " failed: ", answer.err >>,
                             supportNetworkUrl)
        ELSE DiagnosticCheck("network", statusOk,
                             << site, " found: [" >> \o answer.found \o << "]" >>, supportNetworkUrl)

CanaryBody == "Used to testing connections"

\* variant: the canary judged by its HTTP status alone
canaryDownloadCheck_statusOnly(e) ==
    IF e.canary.err # nil
    THEN DiagnosticCheck("network", statusFail, << canaryHost, ": ", e.canary.err >>,
                         supportNetworkUrl)
    ELSE IF e.canary.Status # 200
    THEN DiagnosticCheck("network", statusFail,
                         << "Canary download failed: " >> \o Decimal(e.canary.Status)
                         \o << ": ", e.canary.Body >>,
                         supportNetworkUrl)
    ELSE DiagnosticCheck("network", statusOk,
                         << "Canary download successful: ", canaryHost, canaryUrl >>,
                         supportNetworkUrl)

\* e.canary is what cloud.NewClient and client.Get answered
canaryDownloadCheck(e) ==
    IF e.canary.err # nil
    THEN DiagnosticCheck("network", statusFail, << canaryHost, ": ", e.canary.err >>,
                         supportNetworkUrl)
    ELSE IF e.canary.Status # 200 \/ e.canary.Body # CanaryBody
    THEN DiagnosticCheck("network", statusFail,
                         << "Canary download failed: " >> \o Decimal(e.canary.Status)
                         \o << ": ", e.canary.Body >>,
                         supportNetworkUrl)
    ELSE DiagnosticCheck("network", statusOk,
                         << "Canary download successful: ", canaryHost, canaryUrl >>,
                         supportNetworkUrl)

\* result.Details[...] = ... : the fourteen environment facts
Details(e) ==
    ("executable" :> "/usr/local/bin/rcc") @@ ("rcc" :> "v9.3.0") @@
    ("stats" :> "0 environments, 0 requests") @@ ("micromamba" :> "0.7.14") @@
    ("ROBOCORP_HOME" :> RobocorpHome(e)) @@ ("user-cache-dir" :> "/home/user/.cache") @@
    ("user-config-dir" :> "/home/user/.config") @@ ("user-home-dir" :> "/home/user") @@
    ("working-dir" :> "/home/user/robot") @@ ("tempdir" :> "/tmp") @@
    ("controller" :> "rcc.user") @@ ("installationId" :> "c0ffee") @@
    ("os" :> "linux amd64") @@ ("cpus" :> "4")

\* for _, host := range checkedHosts { result.Checks = append(result.Checks, dnsLookupCheck(host)) }
RECURSIVE DnsChecks(_, _, _)
DnsChecks(checks, hosts, e) ==
    IF Len(hosts) = 0 THEN checks
    ELSE DnsChecks(Append(checks, dnsLookupCheck(Head(hosts), e)), Tail(hosts), e)

\* variant: the two local checks appended in the opposite order
RunChecks_pathFirst(e) ==
    LET c1 == Append(<< >>, longPathSupportCheck(e))
        c2 == Append(c1, robocorpHomeCheck(e))
        c3 == DnsChecks(c2, checkedHosts, e)
    IN  Append(c3, canaryDownloadCheck(e))

\* result.Checks after the "// checks" part of RunDiagnostics
RunChecks(e) ==
    LET c1 == Append(<< >>, robocorpHomeCheck(e))
        c2 == Append(c1, longPathSupportCheck(e))
        c3 == DnsChecks(c2, checkedHosts, e)
    IN  Append(c3, canaryDownloadCheck(e))

\* the *DiagnosticStatus RunDiagnostics returns
RunDiagnosticsResult(e) == [Details |-> Details(e), Checks |-> RunChecks(e)]

(* What the collaborators can answer during one run *)

Homes == { [path |-> "/home/user/.robocorp", valid |-> TRUE],
           [path |-> "/home/my user/.robocorp", valid |-> FALSE] }

CanaryAnswers ==
    { [err |-> "invalid canary host", Status |-> 0, Body |-> ""],
      [err |-> nil, Status |-> 200, Body |-> CanaryBody],
      [err |-> nil, Status |-> 200, Body |-> "<html>blocked by proxy</html>"],
      [err |-> nil, Status |-> 503, Body |-> CanaryBody],
      [err |-> nil, Status |-> 9001, Body |-> ""] }

CheckedHostSet == { checkedHosts[i] : i \in DOMAIN checkedHosts }

Environments ==
    { [home |-> h.path, homeValid |-> h.valid, longPath |-> lp, dnsFailed |-> df, canary |-> ca] :
        h \in Homes, lp \in BOOLEAN, df \in SUBSET CheckedHostSet, ca \in CanaryAnswers }

RunDiagnostics ==
    /\ \E e \in Environments :
          /\ env' = e
          /\ report' = RunDiagnosticsResult(e)
    /\ UNCHANGED <<tlsVars, humaneVars>>

----------------------------------------------------------------------------
(* humaneDiagnostics *)

\* the bytes of the strings whose order or width the rendering depends on
Bytes ==
    ("" :> << >>) @@
    ("o" :> << 111 >>) @@
    ("os" :> << 111, 115 >>) @@
    ("rcc" :> << 114, 99, 99 >>) @@
    ("cpus" :> << 99, 112, 117, 115 >>) @@
    ("ROBOCORP_HOME" :> << 82, 79, 66, 79, 67, 79, 82, 80, 95, 72, 79, 77, 69 >>) @@
    ("network" :> << 110, 101, 116, 119, 111, 114, 107 >>) @@
    ("OS" :> << 79, 83 >>) @@
    ("RPA" :> << 82, 80, 65 >>) @@
    ("ok" :> << 111, 107 >>) @@
    ("warning" :> << 119, 97, 114, 110, 105, 110, 103 >>) @@
    ("fail" :> << 102, 97, 105, 108 >>) @@
    ("fatal" :> << 102, 97, 116, 97, 108 >>)

\* Go's string comparison a < b: byte-wise lexicographic
RECURSIVE BytesLess(_, _)
BytesLess(a, b) ==
    IF Len(b) = 0 THEN FALSE
    ELSE IF Len(a) = 0 THEN TRUE
    ELSE IF Head(a) # Head(b) THEN Head(a) < Head(b)
    ELSE BytesLess(Tail(a), Tail(b))
StringLess(a, b) == BytesLess(Bytes[a], Bytes[b])

\* sort.Strings(keys): ascending by StringLess (insertion into a sorted prefix)
RECURSIVE InsertSorted(_, _)
InsertSorted(sorted, key) ==
    IF Len(sorted) = 0 THEN << key >>
    ELSE IF StringLess(key, Head(sorted)) THEN << key >> \o sorted
    ELSE << Head(sorted) >> \o InsertSorted(Tail(sorted), key)
RECURSIVE SortInto(_, _)
SortInto(sorted, rest) ==
    IF Len(rest) = 0 THEN sorted ELSE SortInto(InsertSorted(sorted, Head(rest)), Tail(rest))
\* variant: the keys left in the order the map yielded them
SortStrings_unsorted(ks) == ks
SortStrings(ks) == SortInto(<< >>, ks)

\* %-Ns : the string followed by the spaces that pad it to width N
PadRight(s, width) ==
    LET n == Len(Bytes[s])
    IN  << s >> \o [i \in 1..(width - n) |-> " "]

\* fmt.Fprintf(sink, " - %-18s...  %q\n", key, value)
DetailLine(key, value) == << " - " >> \o PadRight(key, 18) \o << "...  " >> \o Quoted(value)

\* fmt.Fprintf(sink, " - %-8s %-8s %s\n", check.Type, check.Status, check.Message)
CheckLine(check) ==
    << " - " >> \o PadRight(check.Type, 8) \o << " " >> \o PadRight(check.Status, 8)
    \o << " " >> \o check.Message

\* the lines humaneDiagnostics writes, given the order in which the map yielded its keys
HumaneLines(details, ranged) ==
    LET sorted == SortStrings(ranged)
    IN  << << "Diagnostics:" >> >>
        \o [i \in 1..Len(sorted) |-> DetailLine(sorted[i], details.Details[sorted[i]])]
        \o << << >>, << "Checks:" >> >>
        \o [i \in 1..Len(details.Checks) |-> CheckLine(details.Checks[i])]

\* the orders in which `for key, _ := range details.Details` can yield the keys
RangeOrders(m) ==
    { o \in [1..Cardinality(DOMAIN m) -> DOMAIN m] :
        \A i, j \in DOMAIN o : i # j => o[i] # o[j] }

humaneDiagnostics ==
    /\ Len(sink) = 0
    /\ \E ranged \in RangeOrders(status.Details) :
          /\ keys' = SortStrings(ranged)
          /\ sink' = HumaneLines(status, ranged)
    /\ UNCHANGED <<status, tlsVars, diagVars>>

(* Reports handed to humaneDiagnostics *)

SampleKeys == { "ROBOCORP_HOME", "cpus", "o", "os", "rcc" }

SampleChecks ==
    { DiagnosticCheck("network", statusOk, << "b" >>, supportNetworkUrl),
      DiagnosticCheck("OS", statusFail, << "a" >>, supportLongPathUrl),
      DiagnosticCheck("RPA", statusFatal, << "c" >>, supportGeneralUrl),
      DiagnosticCheck("network", statusWarning, << "a" >>, supportNetworkUrl) }

SampleStatuses ==
    { [Details |-> d, Checks |-> cs] :
        d \in UNION { [ks -> {"value"}] : ks \in SUBSET SampleKeys },
        cs \in UNION { [1..n -> SampleChecks] : n \in 0..MaxChecks } }

----------------------------------------------------------------------------
(* Specifications *)

NoEnvironment ==
    [home |-> "", homeValid |-> FALSE, longPath |-> FALSE, dnsFailed |-> {},
     canary |-> [err |-> nil, Status |-> 0, Body |-> ""]]
NoReport == [Details |-> << >>, Checks |-> << >>]

InitDiag ==
    /\ env = NoEnvironment
    /\ report = NoReport

InitHumane ==
    /\ status = NoReport
    /\ keys = << >>
    /\ sink = << >>

InitHumaneInputs ==
    /\ status \in SampleStatuses
    /\ keys = << >>
    /\ sink = << >>

Init == InitTLS /\ InitDiag /\ InitHumane

\* probes sharing one trust table
SpecTLS == Init /\ [][Probe]_vars

\* one diagnostics run and one TLS probe of a process
FirstProbe == Len(probes) = 0 /\ Probe
FirstRun == report = NoReport /\ RunDiagnostics
Next == FirstProbe \/ FirstRun
Spec == Init /\ [][Next]_vars

\* humaneDiagnostics applied to a report
InitRender == InitTLS /\ InitDiag /\ InitHumaneInputs
SpecHumane == InitRender /\ [][humaneDiagnostics]_vars

----------------------------------------------------------------------------
(* Properties of tlsCheckHost *)

Probed == call # NoCall
Handshake == Probed /\ call.err = nil
PeerChain == call.state.PeerCertificates
Verified == call.verifyErr = nil

\* a message contains a piece of text
HasText(message, text) == \E j \in DOMAIN message : message[j] = text

WithCategory(category) == { i \in DOMAIN result : result[i].Category = category }

\* the probes so far that verified a chain whose last element names `issuer` as its issuer
SeenAt(issuer) == { i \in DOMAIN probes : probes[i].seen /\ probes[i].issuer = issuer }
Latest(S) == CHOOSE i \in S : \A j \in S : j <= i

\* C1: the trust table maps each issuer to the verification outcome of the most
\* recent probe that had a successful handshake, a non-empty chain and that
\* issuer as the issuer of its last chain element; such a probe writes that one
\* key and leaves the other entries as they were; an issuer no such probe has
\* seen has no entry.
C1_TrustTableLastWriteWins ==
    /\ \A issuer \in Issuers :
          IF SeenAt(issuer) = {}
          THEN issuer \notin DOMAIN roots
          ELSE /\ issuer \in DOMAIN roots
               /\ roots[issuer] = probes[Latest(SeenAt(issuer))].verified
    /\ DOMAIN roots \subseteq Issuers
    /\ (Handshake /\ Len(PeerChain) > 0) =>
          LET issuer == PeerChain[Len(PeerChain)].Issuer
          IN  /\ DOMAIN roots = DOMAIN rootsAtEntry \cup {issuer}
              /\ roots[issuer] = Verified
              /\ \A other \in DOMAIN roots \ {issuer} : roots[other] = rootsAtEntry[other]

\* two probes of chains of two certificates ending in the same issuer, the first verified, the
\* second not: the table holds the second outcome
C1_Witness ==
    /\ Len(probes) = 2
    /\ probes[1].seen /\ probes[2].seen
    /\ probes[1].issuer = probes[2].issuer
    /\ probes[1].verified /\ ~probes[2].verified
    /\ Len(PeerChain) = 2 /\ PeerChain[1].Issuer # PeerChain[2].Issuer
    /\ rootsAtEntry[probes[1].issuer] = TRUE
    /\ roots[probes[2].issuer] = FALSE

\* C2: a probe whose HEAD request fails returns exactly one check, of type
\* network and status warning, no version, verify or chain check, leaves the
\* trust table as it was, and the next probe can still run.
C2_TransportErrorOneWarning ==
    (Probed /\ call.err # nil) =>
        /\ Len(result) = 1
        /\ result[1].Type = "network"
        /\ result[1].Status = "warning"
        /\ HasText(result[1].Message, call.host) /\ HasText(result[1].Message, call.err)
        /\ WithCategory(CategoryNetworkTLSVersion) = {}
        /\ WithCategory(CategoryNetworkTLSVerify) = {}
        /\ WithCategory(CategoryNetworkTLSChain) = {}
        /\ roots = rootsAtEntry
        /\ Len(probes) < MaxProbes => ENABLED Probe

\* a failed probe after a probe that filled the trust table
C2_Witness ==
    /\ Probed /\ call.err # nil
    /\ Len(probes) = 2 /\ probes[1].seen
    /\ DOMAIN roots # {}

\* C3: with an empty peer chain exactly one warning check saying "no
\* certificates" is returned, it is the last check of the host, no
\* verify-passed, verify-failed or chain check is returned, and the trust table
\* is as it was.
C3_EmptyChain ==
    (Handshake /\ Len(PeerChain) = 0) =>
        LET said == { i \in DOMAIN result : HasText(result[i].Message, "no certificates for ") }
        IN  /\ Cardinality(said) = 1
            /\ said = { Len(result) }
            /\ \A i \in said : result[i].Status = "warning"
            /\ \A i \in DOMAIN result :
                  /\ ~HasText(result[i].Message, "TLS verification of ")
                  /\ result[i].Category # CategoryNetworkTLSChain
            /\ roots = rootsAtEntry

\* an empty chain met in debug mode while the trust table already has an entry
C3_Witness ==
    /\ Handshake /\ Len(PeerChain) = 0
    /\ debug
    /\ DOMAIN rootsAtEntry # {}
    /\ Len(result) = 2

\* C4: every successful handshake yields exactly one TLS version check, the
\* first check: ok for TLS 1.2 and 1.3, warning for SSLv3, TLS 1.0 and 1.1, and
\* for any other version value a warning saying "unknown TLS version", after
\* which the probe goes on to the certificate step.
C4_VersionCheck ==
    Handshake =>
        LET version == call.state.Version
            unknown == HasText(result[1].Message, "unknown TLS version: ")
        IN  /\ WithCategory(CategoryNetworkTLSVersion) = {1}
            /\ version \in {771, 772} => (result[1].Status = "ok" /\ ~unknown)
            /\ version \in {768, 769, 770} => (result[1].Status = "warning" /\ ~unknown)
            /\ version \notin {768, 769, 770, 771, 772} =>
                  /\ result[1].Status = "warning"
                  /\ unknown
            /\ Len(result) >= 2
            /\ result[2].Category = CategoryNetworkTLSVerify

\* a version above the table: the warning, then the verify check of a chain that verifies
C4_Witness ==
    /\ Handshake /\ call.state.Version = 773
    /\ Len(PeerChain) > 0 /\ Verified
    /\ result[1].Status = "warning"
    /\ Len(result) = 2 /\ result[2].Status = "ok"

\* C5: with a non-empty chain the version check comes first and exactly one
\* verify check follows; the verify check is ok exactly when verification
\* succeeded and the version check's status follows from the version alone.
C5_VersionAndVerifyIndependent ==
    (Handshake /\ Len(PeerChain) > 0) =>
        /\ WithCategory(CategoryNetworkTLSVersion) = {1}
        /\ WithCategory(CategoryNetworkTLSVerify) = {2}
        /\ result[2].Status = (IF Verified THEN "ok" ELSE "warning")
        /\ result[1].Status = (IF call.state.Version \in {771, 772} THEN "ok" ELSE "warning")

\* old.example: TLS 1.0 with a chain that verifies gives warning, then ok
C5_Witness ==
    /\ Handshake /\ call.host = "old.example" /\ call.state.Version = 769
    /\ Len(PeerChain) > 0 /\ Verified
    /\ Len(result) = 2
    /\ result[1].Status = "warning" /\ result[2].Status = "ok"

\* C10: a chain check is returned exactly when the chain is non-empty, its
\* verification failed and debug mode is on; it is then a warning, the last
\* check of the host, and comes right after the verify-failed warning.
C10_ChainCheckOnlyInDebug ==
    Probed =>
        LET chainChecks == WithCategory(CategoryNetworkTLSChain)
        IN  /\ (chainChecks # {}) <=>
                   (Handshake /\ Len(PeerChain) > 0 /\ ~Verified /\ debug)
            /\ \A i \in chainChecks :
                  /\ i = Len(result)
                  /\ result[i].Status = "warning"
                  /\ i > 1
                  /\ result[i - 1].Category = CategoryNetworkTLSVerify
                  /\ result[i - 1].Status = "warning"
                  /\ HasText(result[i - 1].Message, " failed, reason: ")

\* a failed verification in debug mode: version, verify-failed, chain
C10_Witness ==
    /\ Handshake /\ Len(PeerChain) = 2 /\ ~Verified /\ debug
    /\ Len(result) = 3
    /\ result[3].Category = CategoryNetworkTLSChain

----------------------------------------------------------------------------
(* Properties of RunDiagnostics *)

Ran == report # NoReport
NumHosts == Len(checkedHosts)
CanaryFailed ==
    env.canary.err # nil \/ env.canary.Status # 200
    \/ env.canary.Body # "Used to testing connections"

\* the check at position i is the DNS check of host h / the canary check
IsDnsCheckOf(i, h) == report.Checks[i].Type = "network" /\ HasText(report.Checks[i].Message, h)
IsCanaryCheck(i) ==
    /\ report.Checks[i].Type = "network"
    /\ \/ HasText(report.Checks[i].Message, "https://downloads.robocorp.com")
       \/ HasText(report.Checks[i].Message, "Canary download failed: ")

TlsFailuresAreWarnings ==
    /\ (Probed /\ call.err # nil) => (Len(result) = 1 /\ result[1].Status = "warning")
    /\ (Handshake /\ Len(PeerChain) > 0 /\ ~Verified) =>
          (Len(result) >= 2 /\ result[2].Status = "warning")
    /\ Probed => Len(result) >= 1

\* C7 as stated: a failed DNS lookup, a failed canary download and a failed
\* TLS handshake or verification each yield a warning check, and the report
\* holds one check per probe.
C7_Original ==
    /\ Ran =>
          /\ Len(report.Checks) = NumHosts + 3
          /\ \A i \in 1..NumHosts :
                checkedHosts[i] \in env.dnsFailed => report.Checks[2 + i].Status = "warning"
          /\ CanaryFailed => report.Checks[NumHosts + 3].Status = "warning"
    /\ TlsFailuresAreWarnings

\* C7 (amended): a failed DNS lookup and a failed canary download each yield
\* a check of status fail, a failed TLS handshake or verification a check of
\* status warning; for every combination of failures the run returns a report
\* with one check per probe (lookups that succeed and a canary that matches
\* are ok).
C7_FailuresAreChecks ==
    /\ Ran =>
          /\ Len(report.Checks) = NumHosts + 3
          /\ \A i \in 1..NumHosts :
                report.Checks[2 + i].Status =
                    (IF checkedHosts[i] \in env.dnsFailed THEN "fail" ELSE "ok")
          /\ report.Checks[NumHosts + 3].Status = (IF CanaryFailed THEN "fail" ELSE "ok")
    /\ TlsFailuresAreWarnings
    /\ ~Ran => ENABLED FirstRun

\* everything fails: all lookups, the canary (a 200 with a foreign body) and the handshake
C7_Witness ==
    /\ Ran
    /\ env.dnsFailed = CheckedHostSet
    /\ env.canary.err = nil /\ env.canary.Status = 200 /\ CanaryFailed
    /\ Probed /\ call.err # nil
    /\ Len(report.Checks) = NumHosts + 3 /\ Len(result) = 1

\* a message is not the empty string
NonEmpty(message) == \E j \in DOMAIN message : message[j] # ""

\* C8: every check tlsCheckHost returns has type network, a non-empty message
\* and status ok or warning; every check of a report has a non-empty message
\* and a status among ok, warning, fail, fatal, and it is the status its
\* producer decided.
C8_StatusVocabulary ==
    /\ \A i \in DOMAIN result :
          /\ result[i].Type = "network"
          /\ NonEmpty(result[i].Message)
          /\ result[i].Status \in {"ok", "warning"}
    /\ \A i \in DOMAIN report.Checks :
          /\ NonEmpty(report.Checks[i].Message)
          /\ report.Checks[i].Status \in {"ok", "warning", "fail", "fatal"}
    /\ Ran =>
          /\ report.Checks[1].Status = (IF env.homeValid THEN "ok" ELSE "fatal")
          /\ report.Checks[2].Status = (IF env.longPath THEN "ok" ELSE "fail")
          /\ \A i \in 1..NumHosts :
                report.Checks[2 + i].Status =
                    (IF checkedHosts[i] \in env.dnsFailed THEN "fail" ELSE "ok")
          /\ report.Checks[NumHosts + 3].Status = (IF CanaryFailed THEN "fail" ELSE "ok")

\* a failed verification in debug mode next to a report with a fatal and a fail check
C8_Witness ==
    /\ Handshake /\ Len(PeerChain) > 0 /\ ~Verified /\ debug /\ Len(result) = 3
    /\ call.state.Version = 2
    /\ Ran /\ ~env.homeValid /\ ~env.longPath
    /\ report.Checks[1].Status = "fatal" /\ report.Checks[2].Status = "fail"

----------------------------------------------------------------------------
(* Properties of humaneDiagnostics *)

Rendered == Len(sink) > 0
NumKeys == Cardinality(DOMAIN status.Details)

\* a comes strictly before b in lexicographic (byte-wise) order
LexBefore(a, b) ==
    \/ Len(a) < Len(b) /\ \A q \in 1..Len(a) : a[q] = b[q]
    \/ \E p \in 1..Len(a) :
          /\ p <= Len(b)
          /\ a[p] < b[p]
          /\ \A q \in 1..(p - 1) : a[q] = b[q]

\* the key a detail line shows, and the lines of the two lists
KeyOfLine(i) == sink[i][2]
DetailLines == 2..(NumKeys + 1)
CheckLineAt(i) == sink[NumKeys + 3 + i]

\* C9: the text lists every details key exactly once, in lexicographically
\* ascending order whatever order the map yielded them in, and then every
\* check exactly once, in the order of the report.
C9_HumaneOrder ==
    Rendered =>
        /\ Len(sink) = NumKeys + Len(status.Checks) + 3
        /\ sink[1] = << "Diagnostics:" >>
        /\ sink[NumKeys + 3] = << "Checks:" >>
        /\ \A k \in DOMAIN status.Details :
              Cardinality({ i \in DetailLines : KeyOfLine(i) = k }) = 1
        /\ \A i, j \in DetailLines :
              i < j => LexBefore(Bytes[KeyOfLine(i)], Bytes[KeyOfLine(j)])
        /\ \A i \in DetailLines : HasText(sink[i], status.Details[KeyOfLine(i)])
        /\ \A i \in DOMAIN status.Checks :
              LET check == status.Checks[i]
                  line == CheckLineAt(i)
              IN  /\ line[2] = check.Type
                  /\ HasText(line, check.Status)
                  /\ Len(line) > Len(check.Message)
                  /\ SubSeq(line, Len(line) - Len(check.Message) + 1, Len(line)) = check.Message

\* all five keys, and two checks whose messages are in descending order
C9_Witness ==
    /\ Rendered
    /\ NumKeys = 5
    /\ KeyOfLine(2) = "ROBOCORP_HOME" /\ KeyOfLine(4) = "o" /\ KeyOfLine(5) = "os"
    /\ Len(status.Checks) = 2
    /\ status.Checks[1].Message = << "b" >> /\ status.Checks[2].Message = << "a" >>
    /\ status.Checks[1].Type = "network" /\ status.Checks[2].Type = "OS"

====
